---- MODULE Spec2Model ----
(***************************************************************************)
(* elfkillah: a section-header stripper for ELF-32/64 files.               *)
(*                                                                         *)
(* A file is a sequence of bytes.  A run of the tool is main(): it maps    *)
(* the input (build_container), writes a prefix of it to the destination   *)
(* (write_elf), maps the destination (build_container), zeroes four header *)
(* fields and the section-header string table in the destination's mapping *)
(* (adjust_header) and unmaps both (destroy_container).  The input path    *)
(* and the output path name different files.                               *)
(***************************************************************************)
EXTENDS Integers, Sequences, FiniteSets, TLC

VARIABLES
    pc,         \* position of main(): "build_in", "write", "build_out",
                \*   "adjust", "destroy", "exit"
    status,     \* "running", "success" (exit(EXIT_SUCCESS)), "failure"
                \*   (err_exit), "signal" (killed by SIGBUS/SIGSEGV)
    err,        \* the message of err_exit, or the signal's name
    inFile,     \* bytes of the file argv[1]
    outExists,  \* does the file argv[2] exist
    outFile,    \* bytes of the file argv[2]
    elfc_in,    \* ElfContainer *elfc_in
    elfc_out,   \* ElfContainer *elfc_out
    requested,  \* the count write_elf passed to write(), -1 before the call
    written,    \* the value write() returned, -2 before the call
    stores,     \* offsets into the output's mapping that the string-table
                \*   loop of adjust_header stored to
    origFile,   \* the input as it was when this run started
    firstFile,  \* the input of the first run
    run         \* number of this run of the tool

vars == <<pc, status, err, inFile, outExists, outFile, elfc_in, elfc_out,
          requested, written, stores, origFile, firstFile, run>>

----------------------------------------------------------------------------
(* Bounds of the model *)

\* sysconf(_SC_PAGESIZE), scaled down so that files of a few pages are small
PageSize == 64
\* runs of the tool in one behaviour (the second run reads the first's output)
MaxRuns == 2
\* stands for 2^w - 1, the value of (0 - 1) in unsigned arithmetic, and for
\* every decoded value of 2^24 or more: larger than any mapping of the model
HUGE == 1000000000

----------------------------------------------------------------------------
(* <elf.h>: identification bytes, classes, layouts of Ehdr and Shdr *)

ELFMAG0 == 127
ELFMAG1 == 69
ELFMAG2 == 76
ELFMAG3 == 70
EI_CLASS == 4
ELF_32 == 1
ELF_64 == 2

\* width of Elf32_Off/Elf32_Word and of Elf64_Off/Elf64_Xword
OffWidth(type) == IF type = ELF_32 THEN 4 ELSE 8
\* sizeof(Elf32_Ehdr), sizeof(Elf64_Ehdr)
EhdrSize(type) == IF type = ELF_32 THEN 52 ELSE 64
\* offsetof(ElfN_Ehdr, field)
Off_e_shoff(type) == IF type = ELF_32 THEN 32 ELSE 40
Off_e_shentsize(type) == IF type = ELF_32 THEN 46 ELSE 58
Off_e_shnum(type) == IF type = ELF_32 THEN 48 ELSE 60
Off_e_shstrndx(type) == IF type = ELF_32 THEN 50 ELSE 62
\* sizeof(ElfN_Shdr), offsetof(ElfN_Shdr, field)
ShdrSize(type) == IF type = ELF_32 THEN 40 ELSE 64
Off_sh_offset(type) == IF type = ELF_32 THEN 16 ELSE 24
Off_sh_size(type) == IF type = ELF_32 THEN 20 ELSE 32

----------------------------------------------------------------------------
(* Integers of the machine *)

Min(a, b) == IF a < b THEN a ELSE b
Max(a, b) == IF a > b THEN a ELSE b

\* a + b, where HUGE absorbs
SatAdd(a, b) == IF a >= HUGE \/ b >= HUGE \/ a + b >= HUGE THEN HUGE ELSE a + b

\* v - 1 in unsigned arithmetic of any width: 0 - 1 wraps to 2^w - 1
WrapDec(v) == IF v = 0 THEN HUGE ELSE IF v >= HUGE THEN HUGE ELSE v - 1

Pow256(k) == IF k = 0 THEN 1 ELSE IF k = 1 THEN 256 ELSE 65536

\* byte k of the little-endian encoding of v (v < 2^24)
EncodeByte(v, k) == IF k > 2 THEN 0 ELSE (v \div Pow256(k)) % 256

----------------------------------------------------------------------------
(* A mapping made by mmap(NULL, mmapped, PROT_READ|PROT_WRITE, MAP_SHARED,  *)
(* fd, 0) of a file of `size` bytes.  Offsets count from 0.                *)

\* end of the last page that holds a byte of the file
PageEnd(size) == ((size + PageSize - 1) \div PageSize) * PageSize

\* where offset pos of the mapping lands:
\*   "file"     a byte of the file
\*   "slack"    past the end of the file, inside its last page: reads as 0,
\*              a store is not carried to the file
\*   "sigbus"   a mapped page wholly past the end of the file: SIGBUS
\*   "unmapped" past the mapping: undefined behaviour
Region(size, mmapped, pos) ==
    IF pos < size THEN "file"
    ELSE IF pos < PageEnd(size) THEN "slack"
    ELSE IF pos < mmapped THEN "sigbus"
    ELSE "unmapped"

\* the region of the last byte of an access of `width` bytes at pos
RegionOf(size, mmapped, pos, width) ==
    Region(size, mmapped, SatAdd(pos, width - 1))

\* the byte the mapping shows at an offset in "file" or "slack"
MemByte(bytes, pos) == IF pos < Len(bytes) THEN bytes[pos + 1] ELSE 0

\* a little-endian load of `width` bytes at pos ("file" or "slack")
RECURSIVE LoadFrom(_, _, _, _)
LoadFrom(bytes, pos, width, k) ==
    IF k = width THEN 0
    ELSE LET b == MemByte(bytes, pos + k)
             rest == LoadFrom(bytes, pos, width, k + 1)
         IN  IF b = 0 THEN rest
             ELSE IF k > 2 \/ rest >= HUGE THEN HUGE
             ELSE SatAdd(b * Pow256(k), rest)

Load(bytes, pos, width) == LoadFrom(bytes, pos, width, 0)

\* the file after zero bytes were stored to the offsets of S that lie in it
ZeroBytes(bytes, S) ==
    [p \in 1..Len(bytes) |-> IF (p - 1) \in S THEN 0 ELSE bytes[p]]

----------------------------------------------------------------------------
(* The input files of the model *)

\* values of the fields of the inputs
Sizes == {0, 3, 200, 256}
ShOffs == {0, 1, 64, 120, 128, 129, 260}
ShNums == {0, 2}
ShStrNdxs == {0, 1, 3}
StrTabs == {<<70, 8>>, <<100, 28>>, <<200, 8>>, <<250, 16>>}

InputParams ==
    [magic : BOOLEAN, cls : {ELF_32, ELF_64, 3}, size : Sizes,
     e_shoff : ShOffs, e_shnum : ShNums, e_shstrndx : ShStrNdxs,
     e_shentsize : {40, 64}, strtab : StrTabs]

\* a byte that is no field of the model: never 0
Filler(p) == 1 + (p % 5)

InRange(p, lo, width) == lo <= p /\ p < lo + width

\* byte p of the file built from the parameters i: an ELF header in the
\* layout of i.cls, and the section header at index e_shstrndx of the table
\* at e_shoff, holding the string table's sh_offset and sh_size
InputByte(i, p) ==
    LET t == IF i.cls = ELF_64 THEN ELF_64 ELSE ELF_32
        shdr == i.e_shoff + i.e_shstrndx * i.e_shentsize
    IN  IF p = 0 THEN ELFMAG0
        ELSE IF p = 1 THEN ELFMAG1
        ELSE IF p = 2 THEN ELFMAG2
        ELSE IF p = 3 THEN (IF i.magic THEN ELFMAG3 ELSE ELFMAG3 + 1)
        ELSE IF p = EI_CLASS THEN i.cls
        ELSE IF p \in {5, 6} THEN 1                       \* ELFDATA2LSB, EV_CURRENT
        ELSE IF p < 16 THEN 0                             \* padding of e_ident
        ELSE IF InRange(p, 16, 2) THEN EncodeByte(2, p - 16)      \* e_type
        ELSE IF InRange(p, 18, 2) THEN EncodeByte(3, p - 18)      \* e_machine
        ELSE IF InRange(p, 20, 4) THEN EncodeByte(1, p - 20)      \* e_version
        ELSE IF InRange(p, Off_e_shoff(t), OffWidth(t))
             THEN EncodeByte(i.e_shoff, p - Off_e_shoff(t))
        ELSE IF InRange(p, Off_e_shentsize(t), 2)
             THEN EncodeByte(i.e_shentsize, p - Off_e_shentsize(t))
        ELSE IF InRange(p, Off_e_shnum(t), 2)
             THEN EncodeByte(i.e_shnum, p - Off_e_shnum(t))
        ELSE IF InRange(p, Off_e_shstrndx(t), 2)
             THEN EncodeByte(i.e_shstrndx, p - Off_e_shstrndx(t))
        ELSE IF p < EhdrSize(t) THEN Filler(p)
        ELSE IF InRange(p, shdr + Off_sh_offset(t), OffWidth(t))
             THEN EncodeByte(i.strtab[1], p - (shdr + Off_sh_offset(t)))
        ELSE IF InRange(p, shdr + Off_sh_size(t), OffWidth(t))
             THEN EncodeByte(i.strtab[2], p - (shdr + Off_sh_size(t)))
        ELSE Filler(p)

InputFile(i) == [p \in 1..i.size |-> InputByte(i, p - 1)]

----------------------------------------------------------------------------
(* ElfContainer and the functions of elfkillah.c *)

NoContainer ==
    [type |-> 0, size |-> 0, mmapped |-> 0, strtbloff |-> 0, strtblsize |-> 0]

\* values a load from outside the mapping may produce
JunkVals == {0, 72, HUGE}

align_to_page(size) ==
    IF size <= PageSize THEN PageSize
    ELSE size + PageSize - (size % PageSize)

\* a * b of two 16-bit header fields
Mul(a, b) == IF a = 0 \/ b = 0 THEN 0
             ELSE IF a > 30000 \/ b > 30000 THEN HUGE ELSE a * b

\* the outcomes of a load of `width` bytes at offset pos of a mapping
LoadOutcomes(bytes, mmapped, pos, width) ==
    LET r == RegionOf(Len(bytes), mmapped, pos, width)
    IN  IF r \in {"file", "slack"}
          THEN {[sig |-> "none", val |-> Load(bytes, pos, width)]}
        ELSE IF r = "sigbus"
          THEN {[sig |-> "SIGBUS", val |-> 0]}
        ELSE {[sig |-> "SIGSEGV", val |-> 0]}
             \cup {[sig |-> "none", val |-> j] : j \in JunkVals}

\* get_string_table(elfc): the outcomes [sig, strtbloff, strtblsize].
\* Nothing compares e_shstrndx with e_shnum or ptr with elfc->size; the
\* err_exit of the last else is out of reach, type being ELF_32 or ELF_64.
get_string_table(bytes, type, mmapped) ==
    LET e_shoff == Load(bytes, Off_e_shoff(type), OffWidth(type))
        e_shstrndx == Load(bytes, Off_e_shstrndx(type), 2)
        e_shentsize == Load(bytes, Off_e_shentsize(type), 2)
        ptr == SatAdd(e_shoff, Mul(e_shstrndx, e_shentsize))
        offs == LoadOutcomes(bytes, mmapped,
                             SatAdd(ptr, Off_sh_offset(type)), OffWidth(type))
        szs == LoadOutcomes(bytes, mmapped,
                            SatAdd(ptr, Off_sh_size(type)), OffWidth(type))
    IN  {[sig |-> o.sig, strtbloff |-> 0, strtblsize |-> 0] :
            o \in {x \in offs : x.sig # "none"}}
        \cup
        {[sig |-> s.sig,
          strtbloff |-> IF s.sig = "none" THEN o.val ELSE 0,
          strtblsize |-> IF s.sig = "none" THEN s.val ELSE 0] :
            o \in {x \in offs : x.sig = "none"}, s \in szs}

\* build_container(file) on a file that exists: the outcomes
\* [res, msg, elfc], res "ok" (returns elfc), "exit" (err_exit(msg)) or
\* "signal" (killed by the signal msg)
build_container(bytes) ==
    LET size == Len(bytes)
        mmapped == align_to_page(size)
        Exit(m) == {[res |-> "exit", msg |-> m, elfc |-> NoContainer]}
        Signal(m) == [res |-> "signal", msg |-> m, elfc |-> NoContainer]
    IN  IF Region(size, mmapped, 0) = "sigbus"
          THEN {Signal("SIGBUS")}
        ELSE IF MemByte(bytes, 0) # ELFMAG0 \/ MemByte(bytes, 1) # ELFMAG1
                \/ MemByte(bytes, 2) # ELFMAG2 \/ MemByte(bytes, 3) # ELFMAG3
          THEN Exit("bad file")
        ELSE IF MemByte(bytes, EI_CLASS) \notin {ELF_32, ELF_64}
          THEN Exit("bad class")
        ELSE LET type == MemByte(bytes, EI_CLASS)
             IN  {IF g.sig # "none" THEN Signal(g.sig)
                  ELSE [res |-> "ok", msg |-> "",
                        elfc |-> [type |-> type, size |-> size,
                                  mmapped |-> mmapped,
                                  strtbloff |-> g.strtbloff,
                                  strtblsize |-> g.strtblsize]] :
                    g \in get_string_table(bytes, type, mmapped)}

\* the first n bytes a mapping of the file shows
Prefix(bytes, n) == [p \in 1..n |-> MemByte(bytes, p - 1)]

\* the counts write() may report of `full` bytes it could have written
Counts(full) == {k \in {1, 4, full - 1, full} : 1 <= k /\ k <= full}

\* write_elf(elfc, out_file): the outcomes [res, msg, created, out,
\* requested, written].  Only written == 0 and written == -1 end the run.
write_elf(elfc, bytes) ==
    LET size == WrapDec(Load(bytes, Off_e_shoff(elfc.type), OffWidth(elfc.type)))
        \* the kernel copies from the mapping up to the first page it cannot read
        avail == PageEnd(Len(bytes))
        full == Min(size, avail)
        Fail(m, c, req, w) ==
            [res |-> "exit", msg |-> m, created |-> c, out |-> <<>>,
             requested |-> req, written |-> w]
        Done(w, o) ==
            [res |-> "ok", msg |-> "", created |-> TRUE, out |-> o,
             requested |-> size, written |-> w]
    IN  \* open(out_file, O_CREAT|O_RDWR|O_TRUNC, mode) fails
        {Fail("open()", FALSE, -1, -2)}
        \cup
        \* write() fails: written == -1
        {Fail("write_elf() --> write()", TRUE, size, -1)}
        \cup
        \* write() of no bytes: written == 0
        (IF size = 0 THEN {Fail("write_elf() --> write()", TRUE, size, 0)} ELSE {})
        \cup
        \* write() of some or all of the bytes; a count of 2^64 - 1 is refused
        (IF size = 0 \/ (size = HUGE /\ elfc.type = ELF_64) THEN {}
         ELSE {Done(k, Prefix(bytes, k)) : k \in Counts(full)})
        \cup
        \* the count reaches past the mapping and the memory there is readable
        (IF size > elfc.mmapped /\ avail = elfc.mmapped
              /\ ~(size = HUGE /\ elfc.type = ELF_64)
         THEN {Done(avail + 1, Prefix(bytes, avail) \o <<255>>)} ELSE {})

\* adjust_header with one more assignment, elfc->elfN->e_phnum = 0
HeaderStores_AlsoPhnum(type) ==
    (Off_e_shoff(type) .. Off_e_shoff(type) + OffWidth(type) - 1)
    \cup (Off_e_shentsize(type) - 2 .. Off_e_shentsize(type) + 1)
    \cup (Off_e_shnum(type) .. Off_e_shnum(type) + 1)
    \cup (Off_e_shstrndx(type) .. Off_e_shstrndx(type) + 1)

\* offsets of the header fields adjust_header assigns 0 to
HeaderStores(type) ==
    (Off_e_shoff(type) .. Off_e_shoff(type) + OffWidth(type) - 1)
    \cup (Off_e_shentsize(type) .. Off_e_shentsize(type) + 1)
    \cup (Off_e_shnum(type) .. Off_e_shnum(type) + 1)
    \cup (Off_e_shstrndx(type) .. Off_e_shstrndx(type) + 1)

\* the bound of the string-table loop of adjust_header: ptr[i] = '\0' for
\* the offsets lo <= strtbloff + i < hi
ScrubLo(elfc) == elfc.strtbloff
ScrubHi(elfc) == SatAdd(elfc.strtbloff, elfc.strtblsize)

\* adjust_header(elfc) on the output's mapping, the input's mapping being
\* mapped too: the outcomes [sig, out, inp, stores], stores the interval
\* <<lo, hi>> of offsets the loop stored to before it ended.
\* The header lies in the first page of the mapping, which the file backs
\* (build_container read the magic from it), so the four assignments reach
\* the file or its slack.  The loop has no bound but strtblsize: a store
\* past the mapping is undefined and either kills the process, or lands in
\* memory of no file, or lands in the input's mapping when mmap placed that
\* right after the output's.
adjust_header(elfc, out, inElfc, inp) ==
    LET size == Len(out)
        mm == elfc.mmapped
        hdr == ZeroBytes(out, HeaderStores(elfc.type))
        lo == ScrubLo(elfc)
        hi == ScrubHi(elfc)
        \* the first offset of the loop that is no byte and no slack of the file
        f == Max(lo, PageEnd(size))
        scrubbed == ZeroBytes(hdr, lo .. (Min(hi, size) - 1))
        R(sig, i, h) == [sig |-> sig, out |-> scrubbed, inp |-> i,
                         stores |-> <<lo, h>>]
        \* the input's mapping follows the output's: offset q of the input
        \* is offset mm + q of the output
        qlo == f - mm
        qhi == IF hi >= HUGE THEN HUGE ELSE hi - mm
        hit == ZeroBytes(inp, qlo .. (Min(qhi, Len(inp)) - 1))
        qEnd == PageEnd(Len(inp))
    IN  IF f >= hi THEN {R("none", inp, hi)}
        ELSE IF f < mm THEN {R("SIGBUS", inp, f)}
        ELSE \* a store outside the mapping
             {R("SIGSEGV", inp, f)}
             \cup (IF hi < HUGE THEN {R("none", inp, hi)} ELSE {})
             \cup (IF qhi <= qEnd THEN {R("none", hit, hi)}
                   ELSE IF qEnd < inElfc.mmapped /\ qlo < inElfc.mmapped
                     THEN {R("SIGBUS", hit, mm + Max(qlo, qEnd))}
                   ELSE {R("SIGSEGV", hit, mm + Max(qlo, inElfc.mmapped))})

----------------------------------------------------------------------------
(* main() *)

Init ==
    /\ \E i \in InputParams :
          /\ inFile = InputFile(i)
          /\ origFile = InputFile(i)
          /\ firstFile = InputFile(i)
    /\ pc = "build_in"
    /\ status = "running"
    /\ err = ""
    /\ outExists = FALSE
    /\ outFile = <<>>
    /\ elfc_in = NoContainer
    /\ elfc_out = NoContainer
    /\ requested = -1
    /\ written = -2
    /\ stores = <<0, 0>>
    /\ run = 1

\* err_exit(msg), or death by a signal
Stop(st, msg) ==
    /\ pc' = "exit"
    /\ status' = st
    /\ err' = msg

\* elfc_in = build_container(argv[1]);
BuildContainerIn ==
    /\ pc = "build_in"
    /\ \E o \in build_container(inFile) :
          IF o.res = "ok"
            THEN /\ elfc_in' = o.elfc
                 /\ pc' = "write"
                 /\ UNCHANGED <<status, err>>
            ELSE /\ Stop(IF o.res = "exit" THEN "failure" ELSE "signal", o.msg)
                 /\ UNCHANGED elfc_in
    /\ UNCHANGED <<inFile, outExists, outFile, elfc_out, requested, written,
                   stores, origFile, firstFile, run>>

\* write_elf(elfc_in, argv[2]);
WriteElf ==
    /\ pc = "write"
    /\ \E o \in write_elf(elfc_in, inFile) :
          /\ outExists' = o.created
          /\ outFile' = o.out
          /\ requested' = o.requested
          /\ written' = o.written
          /\ IF o.res = "ok"
               THEN pc' = "build_out" /\ UNCHANGED <<status, err>>
               ELSE Stop("failure", o.msg)
    /\ UNCHANGED <<inFile, elfc_in, elfc_out, stores, origFile, firstFile, run>>

\* elfc_out = build_container(argv[2]);
BuildContainerOut ==
    /\ pc = "build_out"
    /\ \E o \in build_container(outFile) :
          IF o.res = "ok"
            THEN /\ elfc_out' = o.elfc
                 /\ pc' = "adjust"
                 /\ UNCHANGED <<status, err>>
            ELSE /\ Stop(IF o.res = "exit" THEN "failure" ELSE "signal", o.msg)
                 /\ UNCHANGED elfc_out
    /\ UNCHANGED <<inFile, outExists, outFile, elfc_in, requested, written,
                   stores, origFile, firstFile, run>>

\* elfc_out->strtbloff = elfc_in->strtbloff;
\* elfc_out->strtblsize = elfc_in->strtblsize;
\* adjust_header(elfc_out);
AdjustHeader ==
    /\ pc = "adjust"
    /\ LET e == [elfc_out EXCEPT !.strtbloff = elfc_in.strtbloff,
                                 !.strtblsize = elfc_in.strtblsize]
       IN  /\ elfc_out' = e
           /\ \E o \in adjust_header(e, outFile, elfc_in, inFile) :
                 /\ outFile' = o.out
                 /\ inFile' = o.inp
                 /\ stores' = o.stores
                 /\ IF o.sig = "none"
                      THEN pc' = "destroy" /\ UNCHANGED <<status, err>>
                      ELSE Stop("signal", o.sig)
    /\ UNCHANGED <<outExists, elfc_in, requested, written, origFile, firstFile, run>>

\* destroy_container(elfc_out); destroy_container(elfc_in);
\* exit(EXIT_SUCCESS);
DestroyContainers ==
    /\ pc = "destroy"
    /\ elfc_in' = NoContainer
    /\ elfc_out' = NoContainer
    /\ Stop("success", "")
    /\ UNCHANGED <<inFile, outExists, outFile, requested, written, stores,
                   origFile, firstFile, run>>

\* the tool is run again, on the output of a run that succeeded and with a
\* destination that does not exist
RunAgain ==
    /\ pc = "exit"
    /\ status = "success"
    /\ run < MaxRuns
    /\ run' = run + 1
    /\ inFile' = outFile
    /\ origFile' = outFile
    /\ outExists' = FALSE
    /\ outFile' = <<>>
    /\ pc' = "build_in"
    /\ status' = "running"
    /\ err' = ""
    /\ requested' = -1
    /\ written' = -2
    /\ stores' = <<0, 0>>
    /\ UNCHANGED <<elfc_in, elfc_out, firstFile>>

Next ==
    \/ BuildContainerIn
    \/ WriteElf
    \/ BuildContainerOut
    \/ AdjustHeader
    \/ DestroyContainers
    \/ RunAgain

Spec == Init /\ [][Next]_vars

----------------------------------------------------------------------------
(* The input of a run, as its header describes it *)

MagicOk(bytes) ==
    /\ Len(bytes) >= 4
    /\ bytes[1] = ELFMAG0 /\ bytes[2] = ELFMAG1
    /\ bytes[3] = ELFMAG2 /\ bytes[4] = ELFMAG3

ClassOk(bytes) == Len(bytes) > EI_CLASS /\ bytes[EI_CLASS + 1] \in {ELF_32, ELF_64}

TypeOf(bytes) == bytes[EI_CLASS + 1]

Shoff(bytes) == Load(bytes, Off_e_shoff(TypeOf(bytes)), OffWidth(TypeOf(bytes)))
Shentsize(bytes) == Load(bytes, Off_e_shentsize(TypeOf(bytes)), 2)
Shnum(bytes) == Load(bytes, Off_e_shnum(TypeOf(bytes)), 2)
Shstrndx(bytes) == Load(bytes, Off_e_shstrndx(TypeOf(bytes)), 2)

\* offset of the section header at index e_shstrndx
StrShdr(bytes) == Shoff(bytes) + Shstrndx(bytes) * Shentsize(bytes)

\* the header passes the magic and class checks
Recognised(bytes) == MagicOk(bytes) /\ ClassOk(bytes)

\* the read of the section header at index e_shstrndx stays inside the file
ShdrInBounds(bytes) ==
    /\ Shstrndx(bytes) < Shnum(bytes)
    /\ StrShdr(bytes) + ShdrSize(TypeOf(bytes)) <= Len(bytes)

StrOffset(bytes) ==
    Load(bytes, StrShdr(bytes) + Off_sh_offset(TypeOf(bytes)), OffWidth(TypeOf(bytes)))
StrSize(bytes) ==
    Load(bytes, StrShdr(bytes) + Off_sh_size(TypeOf(bytes)), OffWidth(TypeOf(bytes)))

\* a well-formed ELF32 or ELF64 file with a section header table: the
\* header is whole, the table follows it and lies in the file, e_shstrndx
\* names an entry of it, and the string table lies in the file, after the
\* header and clear of the table
ValidElf(bytes) ==
    /\ Recognised(bytes)
    /\ Len(bytes) >= EhdrSize(TypeOf(bytes))
    /\ Shnum(bytes) > 0
    /\ Shentsize(bytes) = ShdrSize(TypeOf(bytes))
    /\ Shoff(bytes) >= EhdrSize(TypeOf(bytes))
    /\ Shoff(bytes) + Shnum(bytes) * Shentsize(bytes) <= Len(bytes)
    /\ ShdrInBounds(bytes)
    /\ StrOffset(bytes) >= EhdrSize(TypeOf(bytes))
    /\ StrOffset(bytes) + StrSize(bytes) <= Len(bytes)
    /\ \/ StrOffset(bytes) + StrSize(bytes) <= Shoff(bytes)
       \/ StrOffset(bytes) >= Shoff(bytes) + Shnum(bytes) * Shentsize(bytes)

----------------------------------------------------------------------------
(* The claims *)

\* the run ended with exit(EXIT_SUCCESS)
Succeeded == pc = "exit" /\ status = "success"

\* offsets of the string table the input's section header e_shstrndx names
StrRange(bytes) == StrOffset(bytes) .. (StrOffset(bytes) + StrSize(bytes) - 1)

\* offsets of the bytes of e_shoff, e_shentsize, e_shnum and e_shstrndx
FourFields(bytes) ==
    LET t == TypeOf(bytes)
    IN  {q \in 0 .. (EhdrSize(t) - 1) :
            \/ InRange(q, Off_e_shoff(t), OffWidth(t))
            \/ InRange(q, Off_e_shentsize(t), 2)
            \/ InRange(q, Off_e_shnum(t), 2)
            \/ InRange(q, Off_e_shstrndx(t), 2)}

\* C1: for a valid input with e_shnum > 0 and 0 < e_shoff <= fileSize, once
\* write_elf has written all it asked for, the length of the output is the
\* input's e_shoff
C1_OutputLengthIsShoff ==
    (/\ ValidElf(origFile)
     /\ pc = "build_out"
     /\ written = requested)
    => Len(outFile) = Shoff(origFile)

\* C2 as claimed: after a complete run on a valid input, write() having put
\* out all it was asked for, every byte the
\* output holds below e_shoff is the input's byte, but for the bytes of
\* e_shoff, e_shentsize, e_shnum and e_shstrndx, which are 0
C2_OnlyHeaderFieldsDiffer ==
    (ValidElf(origFile) /\ Succeeded /\ written = requested)
    => \A p \in 1..Len(outFile) :
          (p - 1) < Shoff(origFile)
          => outFile[p] = IF (p - 1) \in FourFields(origFile)
                            THEN 0 ELSE origFile[p]

\* C2 as amended: after a complete run on a valid input, every byte the
\* output holds below e_shoff is the input's byte, but for the bytes of
\* the four header fields and the bytes of the string table's range
\* [sh_offset, sh_offset + sh_size), which are 0
C2_HeaderFieldsAndStringTableDiffer ==
    (ValidElf(origFile) /\ Succeeded)
    => \A p \in 1..Len(outFile) :
          (p - 1) < Shoff(origFile)
          => outFile[p] = IF (p - 1) \in FourFields(origFile)
                                          \cup StrRange(origFile)
                            THEN 0 ELSE origFile[p]

\* C2 witness: a complete run on a valid input whose write was whole, whose
\* string table lies in the output and was zeroed there, the bytes next to
\* it kept
C2_Witness ==
    /\ ValidElf(origFile)
    /\ Succeeded
    /\ written = requested
    /\ StrSize(origFile) > 0
    /\ StrOffset(origFile) + StrSize(origFile) < Len(outFile)
    /\ \A q \in StrRange(origFile) : origFile[q + 1] # 0 /\ outFile[q + 1] = 0
    /\ outFile[StrOffset(origFile)] = origFile[StrOffset(origFile)]
    /\ outFile[StrOffset(origFile)] # 0
    /\ Load(outFile, Off_e_shnum(TypeOf(origFile)), 2) = 0

\* C3: for an input that passes the magic and class checks and has
\* e_shnum = 0, a run that succeeds leaves an output equal to the input,
\* and write() is asked for fileSize bytes
C3_NoOpWhenNoSections ==
    (Recognised(origFile) /\ Shnum(origFile) = 0)
    => /\ (requested # -1 => requested = Len(origFile))
       /\ (Succeeded => outFile = origFile)

\* C4: for an input with e_shnum > 0 whose e_shoff is 0 or exceeds fileSize
\* the destination is never created, and write() is never asked for a count
\* outside 0 < count <= fileSize
C4_NoOutputWhenAlreadyStripped ==
    /\ (/\ Recognised(origFile)
        /\ Shnum(origFile) > 0
        /\ (Shoff(origFile) = 0 \/ Shoff(origFile) > Len(origFile)))
       => ~outExists
    /\ (requested # -1 => (0 < requested /\ requested <= Len(origFile)))

\* C5: an input whose first 4 bytes are not the magic ends with the failure
\* "bad file", one with the magic and an unknown class byte ends with the
\* failure "bad class", and in both cases the destination is not created
C5_ValidationFailsBeforeOutput ==
    /\ ~MagicOk(origFile)
       => /\ ~outExists
          /\ (pc = "exit" => status = "failure" /\ err = "bad file")
    /\ (MagicOk(origFile) /\ ~ClassOk(origFile))
       => /\ ~outExists
          /\ (pc = "exit" => status = "failure" /\ err = "bad class")

\* C6: a second run, on the whole output of a successful run on a valid
\* input, once it has ended and write() has put out the input's length or
\* more, has succeeded and its output equals its input
C6_Idempotent ==
    (/\ ValidElf(firstFile)
     /\ run = 2
     /\ Len(origFile) + 1 = Shoff(firstFile)
     /\ pc = "exit"
     /\ written >= Len(origFile))
    => (status = "success" /\ outFile = origFile)

\* C7: when write() returned less than write_elf asked for, the run ended in
\* failure
C7_ShortWriteIsFatal ==
    (written # -2 /\ written < requested)
    => (pc = "exit" /\ status = "failure")

\* C8: when build_container returned, the section header at index
\* e_shstrndx of the file it mapped lies inside that file: of the input
\* after the first call, of the output after the second
C8_SectionHeaderReadInBounds ==
    /\ pc = "write" => ShdrInBounds(inFile)
    /\ pc = "adjust" => ShdrInBounds(outFile)

\* C9: in a run on a valid input, write() having put out all it was asked
\* for, the string-table loop of adjust_header stores to no offset at or
\* past the length of the output
C9_ScrubInsideOutput ==
    (ValidElf(origFile) /\ written = requested /\ stores[1] < stores[2])
    => stores[2] <= Len(outFile)

\* C10: a run on a valid input, write() having put out all it was asked
\* for, never changes the input file
C10_InputUnchanged ==
    (ValidElf(origFile) /\ written \in {-2, requested}) => inFile = origFile

====
